---- MODULE Spec2Model ----
(***************************************************************************)
(* Model of src/src/fam450/fam450.py: the class fam450ss (the FAM 450      *)
(* allowed-deviations calculator).                                         *)
(*                                                                         *)
(* One instance of fam450ss is modelled.  `self` is the instance's         *)
(* attribute dictionary: a function whose DOMAIN is the set of attributes  *)
(* that exist, so that hasattr(self, 'alt') is "alt" \in DOMAIN self.      *)
(* Probabilities are exact rationals: self.trd is the numerator of         *)
(* trd = self.trd / TrdDen and self.ovr the numerator of                   *)
(* ovr = self.ovr / OvrDen.  scipy.stats.binomtest is modelled by its      *)
(* argument validation and by the exact binomial tail sums; floating point *)
(* rounding of the tail is not modelled.                                   *)
(***************************************************************************)
EXTENDS Integers, Sequences, FiniteSets, TLC

VARIABLES
    self,      \* the instance's attributes: n, trd, ovr and, once stored, alt, k
    pc,        \* "idle", or the branch of allowed_deviations whose loop runs
    k,         \* allowed_deviations' local k (0 while no call runs)
    ret,       \* the most recent call: its name, argument and outcome
    out,       \* what the most recent call printed
    searches,  \* history: the last two successful searches, oldest first
    failed     \* history: some call of allowed_deviations has raised

vars == <<self, pc, k, ret, out, searches, failed>>

\* Bounds of the model.
MaxN == 4
TrdDen == 4
OvrDen == 4

NRange == 0..MaxN
TrdRange == (-1)..(TrdDen + 1)
OvrRange == (-1)..(OvrDen + 1)

\* The values of alt the callers pass: the two supported ones and two others.
AltInputs == {"less", "greater", "two-sided", "equal"}

(***************************************************************************)
(* scipy.stats.binomtest(k, n, p, alternative).pvalue                      *)
(***************************************************************************)
RECURSIVE Pow(_, _)
Pow(b, e) == IF e <= 0 THEN 1 ELSE b * Pow(b, e - 1)

RECURSIVE Choose(_, _)
Choose(nn, i) ==
    IF i = 0 \/ i = nn THEN 1 ELSE Choose(nn - 1, i - 1) + Choose(nn - 1, i)

\* C(n,i) p^i (1-p)^(n-i), as a numerator over TrdDen^n.
PmfNum(nn, i, p) == Choose(nn, i) * Pow(p, i) * Pow(TrdDen - p, nn - i)

RECURSIVE SumPmf(_, _, _, _)
SumPmf(nn, lo, hi, p) ==
    IF lo > hi THEN 0 ELSE PmfNum(nn, lo, p) + SumPmf(nn, lo + 1, hi, p)

\* alternative = 'less': P(X <= k); alternative = 'greater': P(X >= k).
TailNum(kk, nn, p, a) ==
    IF a = "less" THEN SumPmf(nn, 0, kk, p) ELSE SumPmf(nn, kk, nn, p)

\* binomtest's errors, in the order it checks its arguments.
BinomtestError(kk, nn, p) ==
    IF kk < 0 THEN "k must be an integer not less than 0"
    ELSE IF nn < 1 THEN "n must be an integer not less than 1"
    ELSE IF kk > nn THEN "k must not be greater than n"
    ELSE IF ~(0 <= p /\ p <= TrdDen) THEN "p must be in range [0,1]"
    ELSE "none"

\* The result of binomtest(k, n, p, alternative): an error, or the p-value
\* as the fraction num / den.
Binomtest(kk, nn, p, a) ==
    LET e == BinomtestError(kk, nn, p) IN
    IF e # "none" THEN [error |-> e]
    ELSE [num |-> TailNum(kk, nn, p, a), den |-> Pow(TrdDen, nn)]

\* pvalue < ovr and pvalue >= ovr, for ovr = o / OvrDen.
Below(pv, o) == pv.num * OvrDen < o * pv.den
AtLeast(pv, o) == ~Below(pv, o)

(***************************************************************************)
(* fam450ss.allowed_deviations                                             *)
(***************************************************************************)
\* Variant: `<=` for `<` in the 'less' branch.
FirstOperandMutLess(a, pv, o) ==
    IF a = "less" THEN pv.num * OvrDen <= o * pv.den ELSE AtLeast(pv, o)

\* The left operand of the loop condition's `and`.
FirstOperand(a, pv, o) ==
    IF a = "less" THEN Below(pv, o) ELSE AtLeast(pv, o)

\* Variant: `<=` for `<` in the 'greater' branch.
SecondOperandMutGreater(a, pv, o) ==
    IF a = "less" THEN AtLeast(pv, o) ELSE pv.num * OvrDen <= o * pv.den

\* The right operand, evaluated only when the left one is true.
SecondOperand(a, pv, o) ==
    IF a = "less" THEN AtLeast(pv, o) ELSE Below(pv, o)

\* One evaluation of the while condition at local k = kk: binomtest raises,
\* the loop body runs (the condition `not (A and B)` is true), or the loop
\* exits.
LoopTest(kk, s, a) ==
    LET b1 == Binomtest(kk, s.n, s.trd, a) IN
    IF "error" \in DOMAIN b1 THEN [t |-> "raise", error |-> b1.error]
    ELSE IF ~FirstOperand(a, b1, s.ovr) THEN [t |-> "body"]
    ELSE LET b2 == Binomtest(kk + 1, s.n, s.trd, a) IN
         IF "error" \in DOMAIN b2 THEN [t |-> "raise", error |-> b2.error]
         ELSE IF SecondOperand(a, b2, s.ovr) THEN [t |-> "exit"]
         ELSE [t |-> "body"]

\* Variant: a plain else in place of elif alt == 'greater'.
DispatchMut(a) == IF a = "less" THEN "less" ELSE "greater"

\* The if / elif / else on alt.
Dispatch(a) ==
    IF a = "less" THEN "less"
    ELSE IF a = "greater" THEN "greater"
    ELSE "unsupported"

\* Variant: the scan resumes from the stored self.k.
ScanStartMut(s) == IF "k" \in DOMAIN s THEN s.k ELSE 0

\* k = 0 before the dispatch.
ScanStart(s) == 0

\* Variants: k stored off by one; an earlier result kept; alt not stored.
StoreMutOffByOne(s, a, kk) == [alt |-> a, k |-> kk - 1] @@ s

StoreMutKeepFirst(s, a, kk) ==
    IF "alt" \in DOMAIN s THEN s ELSE [alt |-> a, k |-> kk] @@ s

StoreMutNoAlt(s, a, kk) == [k |-> kk] @@ s

\* self.alt = alt; self.k = k
Store(s, a, kk) == [alt |-> a, k |-> kk] @@ s

\* The outcome of a whole call of allowed_deviations(a) whose loop is at
\* local k = kk, as a function of the instance.
RECURSIVE ScanOutcome(_, _, _)
ScanOutcome(kk, s, a) ==
    LET t == LoopTest(kk, s, a) IN
    IF t.t = "raise" THEN [status |-> "raised", error |-> t.error]
    ELSE IF t.t = "exit" THEN [status |-> "returned", value |-> kk]
    ELSE ScanOutcome(kk + 1, s, a)

Outcome(s, a) ==
    IF Dispatch(a) = "unsupported"
    THEN [status |-> "raised", error |-> "Unsupported alternative: " \o a]
    ELSE ScanOutcome(ScanStart(s), s, Dispatch(a))

Remember(h, a, kk) ==
    LET e == [alt |-> a, k |-> kk] IN
    IF h = <<>> THEN <<e>> ELSE <<h[Len(h)], e>>

\* The call: k = 0 and the dispatch on alt.
AllowedDeviations(a) ==
    /\ pc = "idle"
    /\ out' = <<>>
    /\ IF Dispatch(a) = "unsupported"
       THEN /\ ret' = [op |-> "allowed_deviations", arg |-> a, status |-> "raised",
                       error |-> "Unsupported alternative: " \o a]
            /\ failed' = TRUE
            /\ UNCHANGED <<self, pc, k, searches>>
       ELSE /\ pc' = Dispatch(a)
            /\ k' = ScanStart(self)
            /\ ret' = [op |-> "allowed_deviations", arg |-> a, status |-> "running"]
            /\ UNCHANGED <<self, searches, failed>>

\* The while condition is true: k = k + 1.
LoopBody ==
    /\ pc \in {"less", "greater"}
    /\ LoopTest(k, self, pc).t = "body"
    /\ k' = k + 1
    /\ UNCHANGED <<self, pc, ret, out, searches, failed>>

\* binomtest raises inside the while condition; the error leaves the call.
LoopRaise ==
    /\ pc \in {"less", "greater"}
    /\ LoopTest(k, self, pc).t = "raise"
    /\ ret' = [op |-> "allowed_deviations", arg |-> ret.arg, status |-> "raised",
               error |-> LoopTest(k, self, pc).error]
    /\ pc' = "idle"
    /\ k' = 0
    /\ failed' = TRUE
    /\ UNCHANGED <<self, out, searches>>

\* The loop exits: self.alt = alt; self.k = k; return k.
LoopExit ==
    /\ pc \in {"less", "greater"}
    /\ LoopTest(k, self, pc).t = "exit"
    /\ self' = Store(self, pc, k)
    /\ ret' = [op |-> "allowed_deviations", arg |-> ret.arg, status |-> "returned",
               value |-> k]
    /\ searches' = Remember(searches, pc, k)
    /\ pc' = "idle"
    /\ k' = 0
    /\ UNCHANGED <<out, failed>>

(***************************************************************************)
(* fam450ss.detailed_results and fam450ss.simple_results                   *)
(***************************************************************************)
\* not hasattr(self, 'alt') or not hasattr(self, 'k')
NotRun(s) == "alt" \notin DOMAIN s \/ "k" \notin DOMAIN s

\* Variant: the two templates swapped.
PrintedMutSwapped(kind, s) ==
    (IF s.alt = "less"
     THEN <<[template |-> <<kind, "greater">>, k |-> s.k, n |-> s.n,
             trd |-> s.trd, ovr |-> s.ovr]>>
     ELSE <<>>)
    \o
    (IF s.alt = "greater"
     THEN <<[template |-> <<kind, "less">>, k |-> s.k, n |-> s.n,
             trd |-> s.trd, ovr |-> s.ovr]>>
     ELSE <<>>)

\* The two `if self.alt == ...: print(...)` statements, one after the other.
\* A printed text is its template and the values interpolated into it.
Printed(kind, s) ==
    (IF s.alt = "less"
     THEN <<[template |-> <<kind, "less">>, k |-> s.k, n |-> s.n,
             trd |-> s.trd, ovr |-> s.ovr]>>
     ELSE <<>>)
    \o
    (IF s.alt = "greater"
     THEN <<[template |-> <<kind, "greater">>, k |-> s.k, n |-> s.n,
             trd |-> s.trd, ovr |-> s.ovr]>>
     ELSE <<>>)

Report(kind, op) ==
    /\ pc = "idle"
    /\ IF NotRun(self)
       THEN /\ ret' = [op |-> op, status |-> "raised",
                       error |-> "You must run allowed_deviations() first"]
            /\ out' = <<>>
       ELSE /\ ret' = [op |-> op, status |-> "returned"]
            /\ out' = Printed(kind, self)
    /\ UNCHANGED <<self, pc, k, searches, failed>>

DetailedResults == Report("detailed", "detailed_results")

SimpleResults == Report("simple", "simple_results")

(***************************************************************************)
(* fam450ss.__init__ and the specification                                 *)
(***************************************************************************)
\* self.n = n; self.trd = trd; self.ovr = ovr
Construct(nn, p, o) == [n |-> nn, trd |-> p, ovr |-> o]

Init ==
    /\ \E nn \in NRange, p \in TrdRange, o \in OvrRange :
          self = Construct(nn, p, o)
    /\ pc = "idle"
    /\ k = 0
    /\ ret = [op |-> "__init__", status |-> "returned"]
    /\ out = <<>>
    /\ searches = <<>>
    /\ failed = FALSE

Next ==
    \/ \E a \in AltInputs : AllowedDeviations(a)
    \/ LoopBody
    \/ LoopRaise
    \/ LoopExit
    \/ DetailedResults
    \/ SimpleResults

Spec == Init /\ [][Next]_vars

\* A call, once made, runs to its end: the interpreter keeps executing it.
FairSpec == Spec /\ WF_vars(LoopBody \/ LoopRaise \/ LoopExit)

(***************************************************************************)
(* Properties                                                              *)
(***************************************************************************)
\* n >= 1, 0 < trd < 1, 0 < ovr < 1.
Valid(s) ==
    /\ s.n >= 1
    /\ 0 < s.trd /\ s.trd < TrdDen
    /\ 0 < s.ovr /\ s.ovr < OvrDen

Supported == {"less", "greater"}
Reports == {"detailed_results", "simple_results"}

\* The most recent call was allowed_deviations(a) and it returned.
Returned(a) ==
    ret.op = "allowed_deviations" /\ ret.status = "returned" /\ ret.arg = a

\* pvalue(j) of the instance's n and trd, for j in 0..n.
Pvalue(j, a) == Binomtest(j, self.n, self.trd, a)

Latest == searches[Len(searches)]

\* C1: with valid parameters, the k that allowed_deviations('less') returns
\* is the first k >= 0 with pvalue(k) < ovr and pvalue(k+1) >= ovr, where
\* pvalue(j) = P(X <= j) is non-decreasing in j, and it is the largest
\* count whose pvalue is below ovr.
C1_LessCrossing ==
    (Valid(self) /\ Returned("less")) =>
        LET Crossing(j) ==
                /\ Below(Pvalue(j, "less"), self.ovr)
                /\ AtLeast(Pvalue(j + 1, "less"), self.ovr)
        IN  /\ ret.value \in 0..(self.n - 1)
            /\ Crossing(ret.value)
            /\ \A j \in 0..(ret.value - 1) : ~Crossing(j)
            /\ \A j \in 0..(self.n - 1) :
                  Pvalue(j, "less").num <= Pvalue(j + 1, "less").num
            /\ \A j \in 0..self.n :
                  Below(Pvalue(j, "less"), self.ovr) => j <= ret.value

C1_Witness ==
    Valid(self) /\ Returned("less") /\ ret.value >= 1

\* C2: with valid parameters, the k that allowed_deviations('greater')
\* returns is the first k >= 0 with pvalue(k) >= ovr and pvalue(k+1) < ovr,
\* where pvalue(j) = P(X >= j) is non-increasing in j.
C2_GreaterCrossing ==
    (Valid(self) /\ Returned("greater")) =>
        LET Crossing(j) ==
                /\ AtLeast(Pvalue(j, "greater"), self.ovr)
                /\ Below(Pvalue(j + 1, "greater"), self.ovr)
        IN  /\ ret.value \in 0..(self.n - 1)
            /\ Crossing(ret.value)
            /\ \A j \in 0..(ret.value - 1) : ~Crossing(j)
            /\ \A j \in 0..(self.n - 1) :
                  Pvalue(j, "greater").num >= Pvalue(j + 1, "greater").num

C2_Witness ==
    Valid(self) /\ Returned("greater") /\ ret.value >= 1

\* C3: with valid parameters the scan index k never exceeds n, and a scan
\* that finds no crossing in 0..n fails with a SearchExhausted error.
C3_BoundedSearchExhausted ==
    /\ (Valid(self) /\ pc \in Supported) => k <= self.n
    /\ (/\ Valid(self)
        /\ ret.op = "allowed_deviations"
        /\ ret.arg \in Supported
        /\ ret.status = "raised") => ret.error = "SearchExhausted"

\* The part of C3 about termination: every call of allowed_deviations
\* ends, by returning or by raising.
ScanTerminates == (pc # "idle") ~> (pc = "idle")

\* C4: every k that allowed_deviations returns, and every self.k, is an
\* integer in 0..n.
C4_KInRange ==
    /\ "k" \in DOMAIN self => self.k \in 0..self.n
    /\ (ret.op = "allowed_deviations" /\ ret.status = "returned") =>
           ret.value \in 0..self.n

C4_Witness ==
    /\ "k" \in DOMAIN self
    /\ self.k >= 1
    /\ ret.op = "allowed_deviations" /\ ret.status = "returned"

\* C5: detailed_results and simple_results raise the "run
\* allowed_deviations first" error and print nothing as long as no search
\* has succeeded on the instance, failed calls included; once a search has
\* succeeded they return.
C5_ReportNeedsSearch ==
    ret.op \in Reports =>
        IF searches = <<>>
        THEN /\ ret.status = "raised"
             /\ ret.error = "You must run allowed_deviations() first"
             /\ out = <<>>
        ELSE ret.status = "returned"

C5_Witness ==
    /\ ret.op \in Reports
    /\ ret.status = "raised"
    /\ searches = <<>>
    /\ failed

\* C6: allowed_deviations with an alt other than 'less' and 'greater'
\* raises the error naming that alt, runs no scan and leaves the instance
\* as it was.
C6_UnsupportedAltNoEffect ==
    [][(/\ pc = "idle"
        /\ ret'.op = "allowed_deviations"
        /\ ret'.arg \notin Supported)
       => /\ ret'.status = "raised"
          /\ ret'.error = "Unsupported alternative: " \o ret'.arg
          /\ pc' = "idle"
          /\ k' = k
          /\ self' = self]_vars

C6_Witness ==
    /\ ret.op = "allowed_deviations"
    /\ ret.arg \notin Supported
    /\ ret.status = "raised"
    /\ searches # <<>>
    /\ self.alt = Latest.alt /\ self.k = Latest.k

\* C7: with malformed parameters (n < 1, trd or ovr outside (0,1))
\* allowed_deviations never returns a k and never stores a result.
C7_MalformedRejected ==
    ~Valid(self) =>
        /\ "k" \notin DOMAIN self
        /\ "alt" \notin DOMAIN self
        /\ ~(ret.op = "allowed_deviations" /\ ret.status = "returned")

\* C8: the outcome of allowed_deviations(alt), the k or the error, is the
\* outcome of the same call on a freshly constructed instance with the
\* same n, trd, ovr, whatever calls came before.
C8_HistoryIndependent ==
    (ret.op = "allowed_deviations" /\ ret.status # "running") =>
        LET o == Outcome(Construct(self.n, self.trd, self.ovr), ret.arg) IN
        /\ o.status = ret.status
        /\ ret.status = "returned" => o.value = ret.value
        /\ ret.status = "raised" => o.error = ret.error

C8_Witness ==
    /\ Returned("less")
    /\ Len(searches) = 2
    /\ searches[1].alt = "greater"
    /\ searches[1].k # searches[2].k
    /\ failed

\* C9 as stated: a successful search for the other alternative leaves the
\* (alt, k) of the earlier search held on the instance.
C9_EarlierResultKept ==
    [][(/\ "alt" \in DOMAIN self
        /\ ret.status = "running"
        /\ ret'.status = "returned"
        /\ ret'.arg # self.alt)
       => (self'.alt = self.alt /\ self'.k = self.k)]_vars

\* C9 amended: the instance holds one result, the (alt, k) of the most
\* recent successful search; a successful search for the other alternative
\* replaces the earlier one, and n, trd, ovr stay as constructed.
C9_LatestResultHeld ==
    IF searches = <<>>
    THEN DOMAIN self = {"n", "trd", "ovr"}
    ELSE self = [alt |-> Latest.alt, k |-> Latest.k]
                    @@ Construct(self.n, self.trd, self.ovr)

C9_Witness ==
    /\ Len(searches) = 2
    /\ searches[1].alt # searches[2].alt
    /\ searches[1].k # searches[2].k
    /\ self.alt = searches[2].alt
    /\ self.k = searches[2].k

\* C10: once a search has succeeded, detailed_results and simple_results
\* print exactly one text, the template of the most recent successful
\* search's alternative with that search's k; a call that raises and a
\* reporting call leave the instance as it was.
C10_ReportsLatestSearch ==
    [][/\ (ret'.status = "raised" \/ ret'.op \in Reports) => self' = self
       /\ (pc = "idle" /\ ret'.op \in Reports /\ searches # <<>>) =>
            /\ searches' = searches
            /\ Len(out') = 1
            /\ out'[1].template =
                  <<IF ret'.op = "detailed_results" THEN "detailed" ELSE "simple",
                    Latest.alt>>
            /\ out'[1].k = Latest.k
            /\ out'[1].n = self.n]_vars

C10_Witness ==
    /\ ret.op = "simple_results"
    /\ ret.status = "returned"
    /\ Len(searches) = 2
    /\ searches[1].alt = "less" /\ searches[2].alt = "greater"
    /\ failed
    /\ Len(out) = 1
    /\ out[1].template = <<"simple", "greater">>
    /\ out[1].k = searches[2].k

====
